---- MODULE Spec2Model ----
(***************************************************************************)
(* View-state reconciliation of the task components.                       *)
(*                                                                         *)
(* MgtTodo (mgt-todo.ts) keeps a list of tasks, two arrays of pending task *)
(* ids (_loadingTasks, _hiddenTasks), the current list and the new-task    *)
(* draft, and reconciles them with asynchronous gateway calls that settle  *)
(* in any order.  MgtTasksBase/MgtPlanner (mgt-planner.ts) shares the      *)
(* new-task panel logic.  Every handler is one action; every await is a    *)
(* call in `inflight` whose settlement is another action.                  *)
(***************************************************************************)
EXTENDS Integers, Sequences, FiniteSets, Bags, TLC

VARIABLES
    component,           \* "todo" (MgtTodo) or "planner" (MgtPlanner)
    readOnly,            \* the read-only attribute
    taskFilter,          \* the taskFilter property (NoFilter = not set)
    targetId,            \* the target-id attribute (NoList = not set)
    initialId,           \* the initial-id attribute (NoList = not set)
    lists,               \* _lists
    currentList,         \* _currentList (NoList = null)
    tasks,               \* _tasks: [null |-> BOOLEAN, arr |-> sequence of tasks]
    hiddenTasks,         \* _hiddenTasks
    loadingTasks,        \* _loadingTasks
    isLoadingTasks,      \* _isLoadingTasks
    hasDoneInitialLoad,  \* _hasDoneInitialLoad
    isNewTaskVisible,    \* _isNewTaskVisible
    newTaskBeingAdded,   \* _newTaskBeingAdded / isNewTaskBeingAdded
    newTaskName,         \* _newTaskName
    newTaskDueDate,      \* _newTaskDueDate
    newTaskListId,       \* _newTaskListId
    loadPhase,           \* position of the first loadState
    server,              \* the remote store behind the gateway
    inflight,            \* bag of gateway calls awaiting settlement
    issued,              \* number of user operations that issued a call so far
    wire,                \* graph.planner: requests sent, and the last of them
    last                 \* the handler or continuation that ran last

progVars == <<lists, currentList, tasks, hiddenTasks, loadingTasks, isLoadingTasks,
              hasDoneInitialLoad, isNewTaskVisible, newTaskBeingAdded, newTaskName,
              newTaskDueDate, newTaskListId>>

vars == <<component, readOnly, taskFilter, targetId, initialId, wire, lists, currentList, tasks, hiddenTasks, loadingTasks,
          isLoadingTasks, hasDoneInitialLoad, isNewTaskVisible, newTaskBeingAdded,
          newTaskName, newTaskDueDate, newTaskListId, loadPhase, server, inflight, issued,
          last>>

(***************************************************************************)
(* Bounds of the model.                                                    *)
(***************************************************************************)
\* user operations that issue a gateway call (toggle, remove, submit, list
\* switch) in one run; panel operations and settlements are not counted
MaxOps == 3

(***************************************************************************)
(* Values.                                                                 *)
(***************************************************************************)
NoList == "none"

NoDate == "null"

NoTask == 0

NoFilter == "none"

NoRequest == [method |-> "", path |-> <<>>, cache |-> "", scope |-> ""]

ListIds == <<"A", "B">>

Titles == {"Buy milk"}

TaskStatus == {"notStarted", "inProgress", "completed", "deferred", "waitingOnOthers"}

Task(id, status, list, title) == [id |-> id, status |-> status, list |-> list, title |-> title]

ServerTasks ==
    [l \in {"A", "B"} |->
        IF l = "A"
        THEN <<Task(1, "notStarted", "A", "one"), Task(2, "inProgress", "A", "two")>>
        ELSE <<>>]

FirstNewId == 3

Includes(seq, x) == \E i \in DOMAIN seq : seq[i] = x

Without_All(seq, x) == SelectSeq(seq, LAMBDA y : FALSE)

Without(seq, x) == SelectSeq(seq, LAMBDA y : y # x)

\* Array.prototype.findIndex(t => t.id === id); 0 stands for -1
FindIndex(arr, id) ==
    IF \E i \in DOMAIN arr : arr[i].id = id
    THEN CHOOSE i \in DOMAIN arr : arr[i].id = id /\ \A j \in 1..(i - 1) : arr[j].id # id
    ELSE 0

Ev(op, id, arg) == [op |-> op, id |-> id, arg |-> arg]

Call(op, list, id, status, before, title, from) ==
    [op |-> op, list |-> list, id |-> id, status |-> status, before |-> before,
     title |-> title, from |-> from]

Pending == BagCardinality(inflight)

Issue(c) == inflight (+) SetToBag({c})

Settle(c) == inflight (-) SetToBag({c})

CallsOf(op) == {c \in BagToSet(inflight) : c.op = op}

CountOf(op) ==
    LET cs == CallsOf(op)
        RECURSIVE Sum(_)
        Sum(S) == IF S = {} THEN 0
                  ELSE LET c == CHOOSE x \in S : TRUE
                       IN CopiesIn(c, inflight) + Sum(S \ {c})
    IN Sum(cs)

(***************************************************************************)
(* The remote store.  A call settles with success only when the store can  *)
(* serve it; any call may settle with failure.                             *)
(***************************************************************************)
ServerHas(srv, l, id) == \E i \in DOMAIN srv.tasks[l] : srv.tasks[l][i].id = id

\* PATCH of one task: the record the store returns
ServerUpdated(srv, l, id, status) ==
    [srv.tasks[l][FindIndex(srv.tasks[l], id)] EXCEPT !.status = status]

ServerAfterUpdate(srv, l, id, status) ==
    [srv EXCEPT !.tasks[l][FindIndex(srv.tasks[l], id)].status = status]

ServerAfterDelete(srv, l, id) ==
    [srv EXCEPT !.tasks[l] = SelectSeq(srv.tasks[l], LAMBDA t : t.id # id)]

\* POST of a new task: the record the store returns
ServerCreated(l, title) == Task(FirstNewId + server.created, "notStarted", l, title)

ServerAfterCreate(l, title) ==
    [server EXCEPT !.tasks[l] = <<ServerCreated(l, title)>> \o server.tasks[l],
                   !.created = server.created + 1]

(***************************************************************************)
(* Construction.                                                           *)
(***************************************************************************)
Config(ro, filter, target, initial) ==
    [readOnly |-> ro, taskFilter |-> filter, targetId |-> target, initialId |-> initial]

\* the attributes the host sets on the element: read-only, taskFilter,
\* target-id and initial-id ("Z" names no list)
Configs(comp) ==
    CASE comp = "todo" ->
            {Config(FALSE, NoFilter, NoList, NoList),
             Config(TRUE, NoFilter, NoList, NoList),
             Config(FALSE, "incomplete", NoList, "B"),
             Config(TRUE, NoFilter, NoList, "Z"),
             Config(FALSE, NoFilter, "B", NoList),
             Config(FALSE, NoFilter, "B", "Z"),
             Config(TRUE, NoFilter, "B", "B")}
      [] comp = "planner" ->
            {Config(FALSE, NoFilter, NoList, NoList), Config(TRUE, NoFilter, NoList, NoList)}
      [] OTHER -> {Config(FALSE, NoFilter, NoList, NoList)}

Init ==
    /\ component \in {"todo", "planner", "gateway"}
    /\ \E cfg \in Configs(component) :
           /\ readOnly = cfg.readOnly
           /\ taskFilter = cfg.taskFilter
           /\ targetId = cfg.targetId
           /\ initialId = cfg.initialId
    /\ wire = [sent |-> 0, request |-> NoRequest]
    /\ lists = <<>>
    /\ currentList = NoList
    /\ tasks = [null |-> FALSE, arr |-> <<>>]
    /\ hiddenTasks = <<>>
    /\ loadingTasks = <<>>
    /\ isLoadingTasks = FALSE
    /\ hasDoneInitialLoad = FALSE
    /\ isNewTaskVisible = FALSE
    /\ newTaskBeingAdded = FALSE
    /\ newTaskName = ""
    /\ newTaskDueDate = NoDate
    /\ newTaskListId = ""
    /\ loadPhase = "new"
    /\ server = [tasks |-> ServerTasks, created |-> 0]
    /\ inflight = EmptyBag
    /\ issued = 0
    /\ last = Ev("init", NoTask, "")

(***************************************************************************)
(* Rendering and state refresh, run at the end of the handlers.            *)
(***************************************************************************)
\* renderNewTaskPanel picks a default _newTaskListId while the panel is shown
RenderNewTaskPanel ==
    newTaskListId' =
        IF component = "todo" /\ isNewTaskVisible' /\ newTaskListId = ""
           /\ Includes(lists', currentList')
        THEN currentList'
        ELSE newTaskListId

\* the host's taskFilter, when set: a filter that keeps the open tasks
TaskFilter(task) == taskFilter = "incomplete" => task.status # "completed"

\* render without the filter of the hidden tasks
RenderTasks_ShowsHidden ==
    IF tasks.null THEN <<>>
    ELSE IF taskFilter # NoFilter
         THEN SelectSeq(tasks.arr, LAMBDA task : TaskFilter(task))
         ELSE tasks.arr

\* render: the tasks handed to repeat()
RenderTasks ==
    IF tasks.null THEN <<>>
    ELSE LET shown == SelectSeq(tasks.arr, LAMBDA task : ~Includes(hiddenTasks, task.id))
         IN IF taskFilter # NoFilter
            THEN SelectSeq(shown, LAMBDA task : TaskFilter(task))
            ELSE shown

\* rows produced by render: task i of _tasks has a row
Rendered(i) ==
    /\ component = "todo"
    /\ ~tasks.null
    /\ i \in DOMAIN tasks.arr
    /\ LET rows == RenderTasks
       IN \E k \in DOMAIN rows : rows[k] = tasks.arr[i]

\* requestStateUpdate -> loadState once the first load has ended
Reloads == loadPhase = "failed" /\ Len(lists) = 0

\* loadState's fetch of the lists: the target list alone when target-id is set
GetLists ==
    IF targetId # NoList
    THEN Call("getList", targetId, NoTask, "", "", "", "loadState")
    ELSE Call("getLists", NoList, NoTask, "", "", "", "loadState")

StateUpdateInflight(b) ==
    IF Reloads THEN b (+) SetToBag({GetLists})
    ELSE b

StateUpdatePhase == IF Reloads THEN "lists" ELSE loadPhase

StateUpdateHasDone ==
    IF loadPhase \in {"lists", "tasks"} THEN hasDoneInitialLoad
    ELSE IF Len(lists) > 0 THEN TRUE ELSE hasDoneInitialLoad

(***************************************************************************)
(* MgtTodo: loading.                                                       *)
(***************************************************************************)
LoadState ==
    /\ component = "todo"
    /\ loadPhase = "new"
    /\ loadPhase' = "lists"
    /\ inflight' = Issue(GetLists)
    /\ last' = Ev("loadState", NoTask, "")
    /\ UNCHANGED <<component, readOnly, taskFilter, targetId, initialId, wire, issued, lists, currentList, tasks, hiddenTasks,
                   loadingTasks, isLoadingTasks, hasDoneInitialLoad, isNewTaskVisible,
                   newTaskBeingAdded, newTaskName, newTaskDueDate, newTaskListId, server>>

\* loadTaskList that keeps the tasks of the list it leaves
LoadTaskListBegin_KeepsTasks(l, from, bag) ==
    /\ isLoadingTasks' = TRUE
    /\ tasks' = tasks
    /\ currentList' = l
    /\ inflight' = bag (+) SetToBag({Call("getTasks", l, NoTask, "", currentList, "", from)})

\* loadTaskList up to its await
LoadTaskListBegin(l, from, bag) ==
    /\ isLoadingTasks' = TRUE
    /\ tasks' = [null |-> TRUE, arr |-> <<>>]
    /\ currentList' = l
    /\ inflight' = bag (+) SetToBag({Call("getTasks", l, NoTask, "", currentList, "", from)})

\* the lists loadState receives
FetchedLists(c) == IF c.op = "getList" THEN <<c.list>> ELSE ListIds

\* loadState's choice that always takes the first list
InitialList_IgnoresInitialId(ls) == ls[1]

\* loadState's choice of the list to show: the one named by initial-id, else the first
InitialList(ls) ==
    IF initialId # NoList /\ Includes(ls, initialId) THEN initialId ELSE ls[1]

GetListsDone(c, ok) ==
    /\ c \in CallsOf("getLists") \cup CallsOf("getList")
    /\ IF ok
       THEN /\ lists' = FetchedLists(c)
            /\ LoadTaskListBegin(InitialList(FetchedLists(c)), "loadState", Settle(c))
            /\ loadPhase' = "tasks"
            /\ last' = Ev("listsOk", NoTask, "")
       ELSE /\ inflight' = Settle(c)
            /\ loadPhase' = "failed"
            /\ last' = Ev("listsFail", NoTask, "")
            /\ UNCHANGED <<lists, currentList, tasks, isLoadingTasks>>
    /\ UNCHANGED <<component, readOnly, taskFilter, targetId, initialId, wire, issued, hiddenTasks, loadingTasks, hasDoneInitialLoad,
                   isNewTaskVisible, newTaskBeingAdded, newTaskName, newTaskDueDate, server>>
    /\ RenderNewTaskPanel

\* the header's list menu
LoadTaskList(l) ==
    /\ component = "todo"
    /\ hasDoneInitialLoad
    /\ targetId = NoList
    /\ currentList # NoList
    /\ Includes(lists, l)
    /\ issued < MaxOps
    /\ issued' = issued + 1
    /\ LoadTaskListBegin(l, "menu", inflight)
    /\ last' = Ev("loadTaskList", NoTask, l)
    /\ UNCHANGED <<component, readOnly, taskFilter, targetId, initialId, wire, lists, hiddenTasks, loadingTasks,
                   hasDoneInitialLoad, isNewTaskVisible, newTaskBeingAdded, newTaskName,
                   newTaskDueDate, loadPhase, server>>
    /\ RenderNewTaskPanel

GetTasksDone(c, ok) ==
    /\ c \in CallsOf("getTasks")
    /\ inflight' = Settle(c)
    /\ IF ok
       THEN /\ tasks' = [null |-> FALSE, arr |-> server.tasks[c.list]]
            /\ isLoadingTasks' = FALSE
            /\ hasDoneInitialLoad' = (IF c.from = "loadState" THEN TRUE ELSE hasDoneInitialLoad)
            /\ loadPhase' = (IF c.from = "loadState" THEN "done" ELSE loadPhase)
            /\ last' = Ev("tasksOk", NoTask, c.list)
       ELSE /\ loadPhase' = (IF c.from = "loadState" THEN "failed" ELSE loadPhase)
            /\ last' = Ev("tasksFail", NoTask, c.before)
            /\ UNCHANGED <<tasks, isLoadingTasks, hasDoneInitialLoad>>
    /\ UNCHANGED <<component, readOnly, taskFilter, targetId, initialId, wire, issued, lists, currentList, hiddenTasks, loadingTasks,
                   isNewTaskVisible, newTaskBeingAdded, newTaskName, newTaskDueDate,
                   newTaskListId, server>>

(***************************************************************************)
(* MgtTodo: completing a task.                                             *)
(***************************************************************************)
\* handleTaskCheckClick's choice of the new status
ToggledStatus(status) == IF status = "completed" THEN "notStarted" ELSE "completed"

\* updateTaskStatus up to its await
UpdateTaskStatus(i, taskStatus) ==
    /\ loadingTasks' = Append(loadingTasks, tasks.arr[i].id)
    /\ tasks' = [tasks EXCEPT !.arr[i].status = taskStatus]
    /\ inflight' = Issue(Call("update", currentList, tasks.arr[i].id, taskStatus,
                              tasks.arr[i].status, "", "click"))

HandleTaskCheckClick(i) ==
    /\ Rendered(i)
    /\ IF ~readOnly
       THEN /\ issued < MaxOps
            /\ issued' = issued + 1
            /\ UpdateTaskStatus(i, ToggledStatus(tasks.arr[i].status))
       ELSE UNCHANGED <<loadingTasks, tasks, inflight, issued>>
    /\ last' = Ev("checkClick", tasks.arr[i].id, "")
    /\ UNCHANGED <<component, readOnly, taskFilter, targetId, initialId, wire, lists, currentList, hiddenTasks, isLoadingTasks,
                   hasDoneInitialLoad, isNewTaskVisible, newTaskBeingAdded, newTaskName,
                   newTaskDueDate, newTaskListId, loadPhase, server>>

\* what a mutation's continuation reads and writes, and the remote store
Store ==
    [tasks |-> tasks, loadingTasks |-> loadingTasks, hiddenTasks |-> hiddenTasks,
     server |-> server]

\* a continuation that adds the returned task when the list has no such task
UpdateReconciled_AppendsMissing(s, c) ==
    LET srv == ServerAfterUpdate(s.server, c.list, c.id, c.status)
        taskIndex == FindIndex(s.tasks.arr, c.id)
    IN IF s.tasks.null THEN [s EXCEPT !.server = srv]
       ELSE [s EXCEPT !.server = srv,
                      !.tasks = IF taskIndex = 0
                                THEN [s.tasks EXCEPT !.arr = Append(s.tasks.arr,
                                         ServerUpdated(s.server, c.list, c.id, c.status))]
                                ELSE [s.tasks EXCEPT !.arr[taskIndex] =
                                         ServerUpdated(s.server, c.list, c.id, c.status)],
                      !.loadingTasks = Without(s.loadingTasks, c.id)]

\* updateTaskStatus after its await resolved: the assignments to _tasks and _loadingTasks
UpdateReconciled(s, c) ==
    LET srv == ServerAfterUpdate(s.server, c.list, c.id, c.status)
        taskIndex == FindIndex(s.tasks.arr, c.id)
    IN IF s.tasks.null THEN [s EXCEPT !.server = srv]
       ELSE [s EXCEPT !.server = srv,
                      !.tasks = IF taskIndex = 0 THEN s.tasks
                                ELSE [s.tasks EXCEPT !.arr[taskIndex] =
                                         ServerUpdated(s.server, c.list, c.id, c.status)],
                      !.loadingTasks = Without(s.loadingTasks, c.id)]

\* removeTask after its await resolved: the assignments to _tasks and _hiddenTasks
RemoveReconciled(s, c) ==
    LET srv == ServerAfterDelete(s.server, c.list, c.id)
    IN IF s.tasks.null THEN [s EXCEPT !.server = srv]
       ELSE [s EXCEPT !.server = srv,
                      !.tasks = [s.tasks EXCEPT !.arr = SelectSeq(s.tasks.arr, LAMBDA t : t.id # c.id)],
                      !.hiddenTasks = Without(s.hiddenTasks, c.id)]

\* a settled updateTodoTask / deleteTodoTask call; a rejection runs no continuation
Reconciled(s, c, ok) ==
    IF ~ok THEN s
    ELSE IF c.op = "update" THEN UpdateReconciled(s, c) ELSE RemoveReconciled(s, c)

\* the part of a settlement shared by updateTaskStatus and removeTask
MutationDone(c, ok, done, throw, fail, arg) ==
    /\ ok => ServerHas(server, c.list, c.id)
    /\ LET after == Reconciled(Store, c, ok)
       IN /\ tasks' = after.tasks
          /\ loadingTasks' = after.loadingTasks
          /\ hiddenTasks' = after.hiddenTasks
          /\ server' = after.server
    /\ IF ok /\ ~tasks.null
       THEN /\ inflight' = StateUpdateInflight(Settle(c))
            /\ loadPhase' = StateUpdatePhase
            /\ hasDoneInitialLoad' = StateUpdateHasDone
            /\ last' = Ev(done, c.id, arg)
       ELSE /\ inflight' = Settle(c)
            /\ last' = Ev(IF ok THEN throw ELSE fail, c.id, arg)
            /\ UNCHANGED <<hasDoneInitialLoad, loadPhase>>
    /\ UNCHANGED <<component, readOnly, taskFilter, targetId, initialId, wire, issued, lists,
                   currentList, isLoadingTasks, isNewTaskVisible, newTaskBeingAdded,
                   newTaskName, newTaskDueDate, newTaskListId>>

\* updateTaskStatus after its await
UpdateTaskStatusDone(c, ok) ==
    /\ c \in CallsOf("update")
    /\ MutationDone(c, ok, "updateOk", "updateThrow", "updateFail", c.before)

(***************************************************************************)
(* MgtTodo: deleting a task.                                               *)
(***************************************************************************)
\* the row's options menu -> removeTask up to its await
RemoveTask(i) ==
    /\ Rendered(i)
    /\ ~readOnly
    /\ issued < MaxOps
    /\ issued' = issued + 1
    /\ hiddenTasks' = Append(hiddenTasks, tasks.arr[i].id)
    /\ inflight' = Issue(Call("delete", currentList, tasks.arr[i].id, "", "", "", "menu"))
    /\ last' = Ev("removeTask", tasks.arr[i].id, "")
    /\ UNCHANGED <<component, readOnly, taskFilter, targetId, initialId, wire, lists, currentList, tasks, loadingTasks,
                   isLoadingTasks, hasDoneInitialLoad, isNewTaskVisible, newTaskBeingAdded,
                   newTaskName, newTaskDueDate, newTaskListId, loadPhase, server>>

\* removeTask after its await
RemoveTaskDone(c, ok) ==
    /\ c \in CallsOf("delete")
    /\ MutationDone(c, ok, "removeOk", "removeThrow", "removeFail", "")

(***************************************************************************)
(* MgtTodo: the new-task panel.                                            *)
(***************************************************************************)
ShowNewTaskPanel ==
    /\ isNewTaskVisible' = TRUE
    /\ UNCHANGED <<newTaskDueDate, newTaskName>>

HideNewTaskPanel ==
    /\ isNewTaskVisible' = FALSE
    /\ newTaskDueDate' = NoDate
    /\ newTaskName' = ""

\* the header's Add button
ClickAdd ==
    /\ component = "todo"
    /\ hasDoneInitialLoad
    /\ ~readOnly
    /\ ~isNewTaskVisible
    /\ ShowNewTaskPanel
    /\ last' = Ev("showNewTaskPanel", NoTask, "")
    /\ UNCHANGED <<component, readOnly, taskFilter, targetId, initialId, wire, issued, lists, currentList, tasks, hiddenTasks,
                   loadingTasks, isLoadingTasks, hasDoneInitialLoad, newTaskBeingAdded,
                   loadPhase, server, inflight>>
    /\ RenderNewTaskPanel

\* the panel's Cancel button
ClickCancel ==
    /\ component = "todo"
    /\ isNewTaskVisible
    /\ ~newTaskBeingAdded
    /\ HideNewTaskPanel
    /\ last' = Ev("hideNewTaskPanel", NoTask, "")
    /\ UNCHANGED <<component, readOnly, taskFilter, targetId, initialId, wire, issued, lists, currentList, tasks, hiddenTasks,
                   loadingTasks, isLoadingTasks, hasDoneInitialLoad, newTaskBeingAdded,
                   loadPhase, server, inflight>>
    /\ RenderNewTaskPanel

\* the public isNewTaskVisible property, set by the host page
SetIsNewTaskVisible(value) ==
    /\ component = "todo"
    /\ IF value # isNewTaskVisible
       THEN IF value THEN ShowNewTaskPanel ELSE HideNewTaskPanel
       ELSE UNCHANGED <<isNewTaskVisible, newTaskDueDate, newTaskName>>
    /\ last' = Ev("setIsNewTaskVisible", NoTask, "")
    /\ UNCHANGED <<component, readOnly, taskFilter, targetId, initialId, wire, issued, lists, currentList, tasks, hiddenTasks,
                   loadingTasks, isLoadingTasks, hasDoneInitialLoad, newTaskBeingAdded,
                   loadPhase, server, inflight>>
    /\ RenderNewTaskPanel

\* typing in the panel's title input
InputTitle(value) ==
    /\ loadPhase # "new" \/ component = "planner"
    /\ isNewTaskVisible
    /\ newTaskName' = value
    /\ last' = Ev("input", NoTask, "")
    /\ UNCHANGED <<component, readOnly, taskFilter, targetId, initialId, wire, issued, lists, currentList, tasks, hiddenTasks,
                   loadingTasks, isLoadingTasks, hasDoneInitialLoad, isNewTaskVisible,
                   newTaskBeingAdded, newTaskDueDate, newTaskListId, loadPhase, server,
                   inflight>>

(***************************************************************************)
(* MgtTodo: submitting the draft.                                          *)
(***************************************************************************)
\* addTask's guard without the test of the title
AddTaskRejects_IgnoresTitle == newTaskBeingAdded

\* addTask's guard without the test of the submission in flight
AddTaskRejects_IgnoresInFlight == newTaskName = ""

\* addTask's guard
AddTaskRejects == newTaskBeingAdded \/ newTaskName = ""

\* addTask's finally block without the call of hideNewTaskPanel
AddTaskFinally_KeepsPanel(bag) ==
    /\ newTaskBeingAdded' = FALSE
    /\ UNCHANGED <<isNewTaskVisible, newTaskDueDate, newTaskName>>
    /\ inflight' = StateUpdateInflight(bag)
    /\ loadPhase' = StateUpdatePhase
    /\ hasDoneInitialLoad' = StateUpdateHasDone

\* addTask's finally block
AddTaskFinally(bag) ==
    /\ newTaskBeingAdded' = FALSE
    /\ HideNewTaskPanel
    /\ inflight' = StateUpdateInflight(bag)
    /\ loadPhase' = StateUpdatePhase
    /\ hasDoneInitialLoad' = StateUpdateHasDone

\* addTask up to its await; a null _currentList throws inside the try
AddTask ==
    /\ component = "todo"
    /\ IF AddTaskRejects
       THEN /\ last' = Ev("addTask", NoTask, "rejected")
            /\ UNCHANGED <<newTaskBeingAdded, isNewTaskVisible, newTaskDueDate, newTaskName,
                           inflight, loadPhase, hasDoneInitialLoad, issued>>
       ELSE /\ issued < MaxOps
            /\ issued' = issued + 1
            /\ last' = Ev("addTask", NoTask, "accepted")
            /\ IF currentList = NoList
               THEN AddTaskFinally(inflight)
               ELSE /\ newTaskBeingAdded' = TRUE
                    /\ inflight' = Issue(Call("create", currentList, NoTask, "", "",
                                              newTaskName, "panel"))
                    /\ UNCHANGED <<isNewTaskVisible, newTaskDueDate, newTaskName, loadPhase,
                                   hasDoneInitialLoad>>
    /\ UNCHANGED <<component, readOnly, taskFilter, targetId, initialId, wire, lists, currentList, tasks, hiddenTasks,
                   loadingTasks, isLoadingTasks, server>>
    /\ RenderNewTaskPanel

\* addTask after its await: the rest of the try block, then the finally block
AddTaskDone(c, ok) ==
    /\ c \in CallsOf("create")
    /\ IF ok
       THEN /\ server' = ServerAfterCreate(c.list, c.title)
            /\ IF tasks.null
               THEN /\ last' = Ev("addThrow", ServerCreated(c.list, c.title).id, c.list)
                    /\ UNCHANGED tasks
               ELSE /\ tasks' = [tasks EXCEPT !.arr = <<ServerCreated(c.list, c.title)>> \o tasks.arr]
                    /\ last' = Ev("addOk", ServerCreated(c.list, c.title).id, c.list)
       ELSE /\ last' = Ev("addFail", NoTask, c.list)
            /\ UNCHANGED <<tasks, server>>
    /\ AddTaskFinally(Settle(c))
    /\ UNCHANGED <<component, readOnly, taskFilter, targetId, initialId, wire, issued, lists, currentList, hiddenTasks, loadingTasks,
                   isLoadingTasks>>
    /\ RenderNewTaskPanel

(***************************************************************************)
(* MgtTasksBase, as MgtPlanner instantiates it.                            *)
(***************************************************************************)
\* clearNewTaskData
ClearNewTaskData == newTaskName' = ""

\* the isNewTaskVisible setter
BaseIsNewTaskVisible(value) ==
    IF value # isNewTaskVisible
    THEN /\ isNewTaskVisible' = value
         /\ IF ~value THEN ClearNewTaskData ELSE UNCHANGED newTaskName
    ELSE UNCHANGED <<isNewTaskVisible, newTaskName>>

\* the host page, the header's Add button or the panel's Cancel button
BaseSetIsNewTaskVisible(value) ==
    /\ component = "planner"
    /\ BaseIsNewTaskVisible(value)
    /\ last' = Ev("setIsNewTaskVisible", NoTask, "")
    /\ UNCHANGED <<component, readOnly, taskFilter, targetId, initialId, wire, issued, lists, currentList, tasks, hiddenTasks,
                   loadingTasks, isLoadingTasks, hasDoneInitialLoad, newTaskBeingAdded,
                   newTaskDueDate, newTaskListId, loadPhase, server, inflight>>

\* addTask's guard
BaseAddTaskRejects == newTaskBeingAdded \/ newTaskName = ""

\* addTask up to `await this.requestUpdate()`
BaseAddTask ==
    /\ component = "planner"
    /\ IF BaseAddTaskRejects
       THEN /\ last' = Ev("addTask", NoTask, "rejected")
            /\ UNCHANGED <<newTaskBeingAdded, inflight, issued>>
       ELSE /\ issued < MaxOps
            /\ issued' = issued + 1
            /\ newTaskBeingAdded' = TRUE
            /\ inflight' = Issue(Call("requestUpdate", NoList, NoTask, "", "", "", "panel"))
            /\ last' = Ev("addTask", NoTask, "accepted")
    /\ UNCHANGED <<component, readOnly, taskFilter, targetId, initialId, wire, lists, currentList, tasks, hiddenTasks,
                   loadingTasks, isLoadingTasks, hasDoneInitialLoad, isNewTaskVisible,
                   newTaskName, newTaskDueDate, newTaskListId, loadPhase, server>>

\* addTask from the update to `await this.createNewTask()`
BaseAddTaskUpdated(c) ==
    /\ c \in CallsOf("requestUpdate")
    /\ inflight' = Settle(c) (+) SetToBag({Call("createNewTask", NoList, NoTask, "", "", "", "panel")})
    /\ last' = Ev("updated", NoTask, "")
    /\ UNCHANGED <<component, readOnly, taskFilter, targetId, initialId, wire, issued, lists, currentList, tasks, hiddenTasks,
                   loadingTasks, isLoadingTasks, hasDoneInitialLoad, isNewTaskVisible,
                   newTaskBeingAdded, newTaskName, newTaskDueDate, newTaskListId, loadPhase,
                   server>>

\* addTask's finally block
BaseAddTaskFinally ==
    /\ newTaskBeingAdded' = FALSE
    /\ BaseIsNewTaskVisible(FALSE)

\* addTask once createNewTask has settled
BaseAddTaskDone(c, ok) ==
    /\ c \in CallsOf("createNewTask")
    /\ inflight' = Settle(c)
    /\ BaseAddTaskFinally
    /\ last' = Ev(IF ok THEN "addOk" ELSE "addFail", NoTask, "")
    /\ UNCHANGED <<component, readOnly, taskFilter, targetId, initialId, wire, issued, lists, currentList, tasks, hiddenTasks,
                   loadingTasks, isLoadingTasks, hasDoneInitialLoad, newTaskDueDate,
                   newTaskListId, loadPhase, server>>

(***************************************************************************)
(* graph.planner: the functions that send the Planner requests.            *)
(***************************************************************************)
ReadOps == {"getPlannerPlan", "getMyPlannerPlans", "getPlannerBucket", "getPlannerBuckets",
            "getPlannerTasks"}

WriteOps == {"deletePlannerTask", "createPlannerTask", "assignPeopleToTask", "updatePlannerTask"}

Ids == {1}

Request(method, path, scope) ==
    [method |-> method, path |-> path, cache |-> "no-store", scope |-> scope]

\* the functions with the read scope on every request
PlannerRequest_ReadScope(op, id, bucketId) ==
    CASE op = "deletePlannerTask" -> Request("DELETE", <<"planner", "tasks", id>>, "Group.Read.All")
      [] op = "createPlannerTask" -> Request("POST", <<"planner", "tasks">>, "Group.Read.All")
      [] op \in {"assignPeopleToTask", "updatePlannerTask"} ->
            Request("PATCH", <<"planner", "tasks", id>>, "Group.Read.All")
      [] op = "getPlannerPlan" -> Request("GET", <<"planner", "plans", id>>, "Group.Read.All")
      [] op = "getMyPlannerPlans" -> Request("GET", <<"me", "planner", "plans">>, "Group.Read.All")
      [] op = "getPlannerBucket" ->
            Request("GET", <<"planner", "plans", id, "buckets", bucketId>>, "Group.Read.All")
      [] op = "getPlannerBuckets" ->
            Request("GET", <<"planner", "plans", id, "buckets">>, "Group.Read.All")
      [] op = "getPlannerTasks" ->
            Request("GET", <<"planner", "buckets", id, "tasks">>, "Group.Read.All")

\* the request each function builds; assignPeopleToTask sends updatePlannerTask's
PlannerRequest(op, id, bucketId) ==
    CASE op = "deletePlannerTask" ->
            Request("DELETE", <<"planner", "tasks", id>>, "Group.ReadWrite.All")
      [] op = "createPlannerTask" ->
            Request("POST", <<"planner", "tasks">>, "Group.ReadWrite.All")
      [] op \in {"assignPeopleToTask", "updatePlannerTask"} ->
            Request("PATCH", <<"planner", "tasks", id>>, "Group.ReadWrite.All")
      [] op = "getPlannerPlan" -> Request("GET", <<"planner", "plans", id>>, "Group.Read.All")
      [] op = "getMyPlannerPlans" -> Request("GET", <<"me", "planner", "plans">>, "Group.Read.All")
      [] op = "getPlannerBucket" ->
            Request("GET", <<"planner", "plans", id, "buckets", bucketId>>, "Group.Read.All")
      [] op = "getPlannerBuckets" ->
            Request("GET", <<"planner", "plans", id, "buckets">>, "Group.Read.All")
      [] op = "getPlannerTasks" ->
            Request("GET", <<"planner", "buckets", id, "tasks">>, "Group.Read.All")

\* a function of graph.planner up to its await: the request goes out
GatewayCall(op, id, bucketId) ==
    /\ component = "gateway"
    /\ issued < MaxOps
    /\ issued' = issued + 1
    /\ wire' = [sent |-> wire.sent + 1, request |-> PlannerRequest(op, id, bucketId)]
    /\ inflight' = Issue(Call(op, NoList, id, "", "", "", "gateway"))
    /\ last' = Ev(op, id, "")
    /\ UNCHANGED <<component, readOnly, taskFilter, targetId, initialId, lists, currentList,
                   tasks, hiddenTasks, loadingTasks, isLoadingTasks, hasDoneInitialLoad,
                   isNewTaskVisible, newTaskBeingAdded, newTaskName, newTaskDueDate,
                   newTaskListId, loadPhase, server>>

\* the request settles: the function returns the response or rejects
GatewaySettle(c, ok) ==
    /\ c.from = "gateway"
    /\ inflight' = Settle(c)
    /\ last' = Ev(IF ok THEN "resolved" ELSE "rejected", c.id, c.op)
    /\ UNCHANGED <<component, readOnly, taskFilter, targetId, initialId, wire, issued, lists,
                   currentList, tasks, hiddenTasks, loadingTasks, isLoadingTasks,
                   hasDoneInitialLoad, isNewTaskVisible, newTaskBeingAdded, newTaskName,
                   newTaskDueDate, newTaskListId, loadPhase, server>>

(***************************************************************************)
(* The component under every order of user events and settlements.        *)
(***************************************************************************)
Next ==
    \/ LoadState
    \/ \E c \in BagToSet(inflight), ok \in BOOLEAN : GetListsDone(c, ok)
    \/ \E l \in {"A", "B"} : LoadTaskList(l)
    \/ \E c \in BagToSet(inflight), ok \in BOOLEAN : GetTasksDone(c, ok)
    \/ \E i \in 1..3 : HandleTaskCheckClick(i)
    \/ \E c \in BagToSet(inflight), ok \in BOOLEAN : UpdateTaskStatusDone(c, ok)
    \/ \E i \in 1..3 : RemoveTask(i)
    \/ \E c \in BagToSet(inflight), ok \in BOOLEAN : RemoveTaskDone(c, ok)
    \/ ClickAdd
    \/ ClickCancel
    \/ \E value \in BOOLEAN : SetIsNewTaskVisible(value)
    \/ \E value \in Titles \cup {""} : InputTitle(value)
    \/ AddTask
    \/ \E c \in BagToSet(inflight), ok \in BOOLEAN : AddTaskDone(c, ok)
    \/ \E value \in BOOLEAN : BaseSetIsNewTaskVisible(value)
    \/ BaseAddTask
    \/ \E c \in BagToSet(inflight) : BaseAddTaskUpdated(c)
    \/ \E c \in BagToSet(inflight), ok \in BOOLEAN : BaseAddTaskDone(c, ok)
    \/ \E op \in ReadOps \cup WriteOps, id \in Ids, bucketId \in Ids : GatewayCall(op, id, bucketId)
    \/ \E c \in BagToSet(inflight), ok \in BOOLEAN : GatewaySettle(c, ok)

Spec == Init /\ [][Next]_vars

(***************************************************************************)
(* Properties.                                                             *)
(***************************************************************************)
InTasks(id) == ~tasks.null /\ FindIndex(tasks.arr, id) # 0

StatusOf(id) == tasks.arr[FindIndex(tasks.arr, id)].status

\* C1: when the updateTask call of a toggle fails, the task's status in the
\* list is again the status it had before the toggle.
C1_FailedToggleRollsBack ==
    (last.op = "updateFail" /\ InTasks(last.id)) => StatusOf(last.id) = last.arg

\* C2: a toggle's loading marker is removed when its updateTask call settles,
\* on success and on failure: with no updateTask call in flight, _loadingTasks
\* is empty.
C2_NoLeakedLoadingMarker ==
    CallsOf("update") = {} => loadingTasks = <<>>

\* C3: when the deleteTask call of removeTask(id) fails, id is no longer in
\* _hiddenTasks and the task is still in the list.
C3_FailedRemoveRestoresTask ==
    last.op = "removeFail" => (~Includes(hiddenTasks, last.id) /\ InTasks(last.id))

\* C4: when the deleteTask call of removeTask(id) succeeds, id is absent from
\* the task list and from _hiddenTasks, and the other tasks keep their order.
C4_SuccessfulRemove ==
    [][last'.op \in {"removeOk", "removeThrow"} =>
          /\ ~Includes(hiddenTasks', last'.id)
          /\ ~tasks'.null
          /\ tasks'.arr = SelectSeq(tasks.arr, LAMBDA t : t.id # last'.id)]_vars

\* C5: a check click on a task whose id is in _loadingTasks issues no second
\* updateTask call and changes neither the task list nor _loadingTasks.
C5_SecondToggleRejected ==
    [][(last'.op = "checkClick" /\ Includes(loadingTasks, last'.id)) =>
          (inflight' = inflight /\ tasks' = tasks /\ loadingTasks' = loadingTasks)]_vars

\* submissions awaiting their outcome, in either component
SubmissionsInFlight == CountOf("create") + CountOf("requestUpdate") + CountOf("createNewTask")

\* C6: addTask called while the draft title is empty issues no call and
\* leaves the component's state as it was.
C6_EmptyTitleSubmitIsNoOp ==
    [][(last'.op = "addTask" /\ newTaskName = "") =>
          (UNCHANGED progVars /\ inflight' = inflight /\ server' = server)]_vars

C6_Witness ==
    /\ last = Ev("addTask", NoTask, "rejected")
    /\ isNewTaskVisible
    /\ newTaskName = ""
    /\ ~newTaskBeingAdded
    /\ currentList # NoList

\* C7: while a submission is in flight a further addTask is a no-op, and at
\* most one submission is in flight at any time.
C7_SingleInFlightSubmission ==
    /\ [](SubmissionsInFlight <= 1)
    /\ [](SubmissionsInFlight = 1 => newTaskBeingAdded)
    /\ [][(last'.op = "addTask" /\ newTaskBeingAdded) =>
             (UNCHANGED progVars /\ inflight' = inflight /\ server' = server)]_vars

C7_Witness ==
    /\ last = Ev("addTask", NoTask, "rejected")
    /\ newTaskBeingAdded
    /\ newTaskName # ""
    /\ CountOf("create") = 1

\* C8: once an accepted addTask has finished, with createTask succeeded or
\* failed, the submitting flag is false, the panel is closed and the draft
\* title is empty; on failure the task list is unchanged.
C8_SubmitAlwaysReleases ==
    /\ []((\/ last.op \in {"addOk", "addFail", "addThrow"}
           \/ (last = Ev("addTask", NoTask, "accepted") /\ currentList = NoList
               /\ component = "todo"))
          => (~newTaskBeingAdded /\ ~isNewTaskVisible /\ newTaskName = ""))
    /\ [][last'.op = "addFail" => tasks' = tasks]_vars

C8_Witness ==
    /\ component = "todo"
    /\ last.op = "addFail"
    /\ ~newTaskBeingAdded
    /\ ~isNewTaskVisible
    /\ newTaskName = ""

\* C9: when the createTask call of an accepted addTask succeeds, the task
\* list becomes the returned task followed by the tasks as they were, and the
\* list shown is the one the task was created in.
C9_SuccessfulSubmitPrepends ==
    [][(component = "todo" /\ last'.op \in {"addOk", "addThrow"}) =>
          /\ ~tasks'.null
          /\ Len(tasks'.arr) = Len(tasks.arr) + 1
          /\ tasks'.arr[1].id = last'.id
          /\ Tail(tasks'.arr) = tasks.arr
          /\ tasks'.arr[1].list = currentList']_vars

\* C10: no task id is in _loadingTasks and in _hiddenTasks at once.
C10_PendingSetsDisjoint ==
    \A id \in 1..(FirstNewId + MaxOps) : ~(Includes(loadingTasks, id) /\ Includes(hiddenTasks, id))

\* indices of _tasks whose task is not hidden and passes the filter
ShownIndices ==
    {i \in DOMAIN tasks.arr :
        /\ \A h \in DOMAIN hiddenTasks : hiddenTasks[h] # tasks.arr[i].id
        /\ (taskFilter = NoFilter \/ tasks.arr[i].status # "completed")}

\* C11: the rows of render are the tasks of _tasks that are not hidden and
\* pass taskFilter, each once and in list order; none while _tasks is cleared.
C11_RenderedListInvariant ==
    component = "todo" =>
        IF tasks.null THEN RenderTasks = <<>>
        ELSE /\ Len(RenderTasks) = Cardinality(ShownIndices)
             /\ \A i \in ShownIndices : \E k \in DOMAIN RenderTasks : RenderTasks[k] = tasks.arr[i]
             /\ \A k \in DOMAIN RenderTasks :
                   FindIndex(tasks.arr, RenderTasks[k].id) \in ShownIndices
             /\ \A k, m \in DOMAIN RenderTasks :
                   k < m => FindIndex(tasks.arr, RenderTasks[k].id)
                                < FindIndex(tasks.arr, RenderTasks[m].id)

C11_Witness ==
    /\ component = "todo"
    /\ taskFilter = "incomplete"
    /\ ~tasks.null
    /\ Len(RenderTasks) < Len(tasks.arr)
    /\ \E i \in DOMAIN tasks.arr : Includes(hiddenTasks, tasks.arr[i].id)
    /\ \E i \in DOMAIN tasks.arr : tasks.arr[i].status = "completed"
                                   /\ ~Includes(hiddenTasks, tasks.arr[i].id)

\* C12: loadTaskList makes the chosen list current and clears _tasks in the
\* same step; a getTodoTasks response sets the whole list of the store in one
\* step; _tasks leaves the cleared state only by such a step.
C12_AtomicContainerSwitch ==
    [][/\ last'.op = "loadTaskList" =>
            currentList' = last'.arg /\ tasks' = [null |-> TRUE, arr |-> <<>>]
       /\ last'.op = "listsOk" =>
            Includes(lists', currentList') /\ tasks' = [null |-> TRUE, arr |-> <<>>]
       /\ last'.op = "tasksOk" =>
            ~tasks'.null /\ tasks'.arr = server.tasks[last'.arg]
       /\ (tasks.null /\ ~tasks'.null) => last'.op = "tasksOk"]_vars

C12_Witness ==
    /\ last.op = "tasksOk"
    /\ last.arg = "A"
    /\ initialId = "B"
    /\ currentList = "A"
    /\ Len(tasks.arr) = 2

\* C13: a step that closes the new-task panel (Cancel, the isNewTaskVisible
\* property set to false, the end of a submission) leaves no draft: the title,
\* the due date and the target list id are all cleared, so the draft is empty
\* whenever the panel is closed.
C13_CloseDraftClearsDraft ==
    ~isNewTaskVisible =>
        newTaskName = "" /\ newTaskDueDate = NoDate /\ newTaskListId = ""

\* a toggle or a removal in flight
Mutations == CallsOf("update") \cup CallsOf("delete")

\* the tasks, and the markers, of every task but id
OtherTasks(t, id) == SelectSeq(t.arr, LAMBDA task : task.id # id)

OtherMarkers(ids, id) == SelectSeq(ids, LAMBDA marked : marked # id)

\* C14: two mutations in flight on two different tasks of one list commute:
\* settling them in either order, with the same outcomes, ends in the same
\* tasks, markers and store; and the step that settles a mutation changes
\* nothing but the record and the marker of its own task.
C14_CrossTaskIndependence ==
    /\ [](\A c1, c2 \in Mutations :
            (c1.id # c2.id /\ c1.list = c2.list) =>
                \A o1, o2 \in BOOLEAN :
                    ((o1 => ServerHas(server, c1.list, c1.id))
                        /\ (o2 => ServerHas(server, c2.list, c2.id))) =>
                    Reconciled(Reconciled(Store, c1, o1), c2, o2)
                        = Reconciled(Reconciled(Store, c2, o2), c1, o1))
    /\ [][last'.op \in {"updateOk", "updateThrow", "updateFail",
                        "removeOk", "removeThrow", "removeFail"} =>
            /\ tasks'.null = tasks.null
            /\ OtherTasks(tasks', last'.id) = OtherTasks(tasks, last'.id)
            /\ OtherMarkers(loadingTasks', last'.id) = OtherMarkers(loadingTasks, last'.id)
            /\ OtherMarkers(hiddenTasks', last'.id) = OtherMarkers(hiddenTasks, last'.id)
            /\ \A l \in DOMAIN server.tasks :
                   SelectSeq(server'.tasks[l], LAMBDA task : task.id # last'.id)
                       = SelectSeq(server.tasks[l], LAMBDA task : task.id # last'.id)
            /\ UNCHANGED <<lists, currentList, isLoadingTasks, isNewTaskVisible,
                           newTaskBeingAdded, newTaskName, newTaskDueDate,
                           newTaskListId>>]_vars

C14_Witness ==
    /\ last.op = "updateOk"
    /\ last.id = 1
    /\ StatusOf(1) = "completed"
    /\ \E c \in CallsOf("delete") : c.id = 2 /\ c.list = currentList
    /\ Includes(hiddenTasks, 2)
    /\ ~Includes(loadingTasks, 1)

\* C15: every function of graph.planner sends one request per invocation,
\* with the header Cache-Control: no-store and the scope of its kind
\* (Group.Read.All for the get/list functions, Group.ReadWrite.All for create,
\* update, assign and delete); a settled request, failed or not, is not sent
\* again.
C15_GatewayRequestShape ==
    /\ [](component = "gateway" =>
            /\ wire.sent = issued
            /\ last.op \in ReadOps =>
                   /\ wire.request.method = "GET"
                   /\ wire.request.cache = "no-store"
                   /\ wire.request.scope = "Group.Read.All"
            /\ last.op \in WriteOps =>
                   /\ wire.request.method \in {"POST", "PATCH", "DELETE"}
                   /\ wire.request.cache = "no-store"
                   /\ wire.request.scope = "Group.ReadWrite.All")
    /\ [][last'.op \in {"resolved", "rejected"} => wire' = wire]_vars

C15_Witness ==
    /\ component = "gateway"
    /\ last.op = "rejected"
    /\ last.arg = "getPlannerTasks"
    /\ wire.sent = 3
    /\ wire.request.scope = "Group.ReadWrite.All"
    /\ inflight = EmptyBag

\* isLoadingState: a loadState run is waiting for its lists or its tasks
IsLoadingState == loadPhase \in {"lists", "tasks"}

\* renderHeader: the loading header, or the header with or without the Add button
HeaderMode ==
    IF IsLoadingState \/ ~hasDoneInitialLoad THEN "loading"
    ELSE IF ~readOnly /\ ~isNewTaskVisible THEN "add" ELSE "noAdd"

\* C16: the header is the loading header in every state before the first
\* fetch of the lists and of the tasks has completed; once it has, the header
\* has the Add button exactly when the component is not read-only and the
\* panel is closed; _hasDoneInitialLoad is true only after the lists and the
\* first task list were set.
C16_HeaderModes ==
    component = "todo" =>
        /\ loadPhase # "done" => HeaderMode = "loading"
        /\ loadPhase = "done" =>
               (HeaderMode = "add" <=> (~readOnly /\ ~isNewTaskVisible))
        /\ hasDoneInitialLoad => (Len(lists) > 0 /\ loadPhase = "done")

\* the store's records of the task id
ServerRecords(srv, id) ==
    {t \in UNION {{srv.tasks[l][k] : k \in DOMAIN srv.tasks[l]} : l \in DOMAIN srv.tasks} :
        t.id = id}

\* C17: a step on which updateTodoTask resolved replaces the entry of _tasks
\* that has the task's id by the record the store returned, at the position
\* the entry had; the length and all other entries are unchanged; when the
\* list has no entry with that id, the list is left as it was.
C17_SuccessfulToggleReconciliation ==
    [][last'.op \in {"updateOk", "updateThrow"} =>
          IF InTasks(last'.id)
          THEN /\ ~tasks'.null
               /\ Len(tasks'.arr) = Len(tasks.arr)
               /\ \A k \in DOMAIN tasks.arr :
                     IF tasks.arr[k].id = last'.id
                     THEN tasks'.arr[k] \in ServerRecords(server', last'.id)
                     ELSE tasks'.arr[k] = tasks.arr[k]
          ELSE tasks' = tasks]_vars

C17_Witness ==
    /\ last.op = "updateOk"
    /\ last.id = 2
    /\ Len(tasks.arr) = 2
    /\ tasks.arr[1].id = 1
    /\ tasks.arr[2] \in ServerRecords(server, 2)
    /\ tasks.arr[2].status = "completed"
    /\ last.arg = "inProgress"

\* C18: when the getTodoTasks call of a list switch fails, the list that was
\* selected before the switch is the current list again, its tasks are shown
\* (the task list is not cleared) and the tasks-loading indicator is off.
C18_FailedListLoadLeavesPriorState ==
    (last.op = "tasksFail" /\ last.arg # NoList) =>
        /\ currentList = last.arg
        /\ ~tasks.null
        /\ ~isLoadingTasks

\* the fetches of lists and of tasks among the calls of a bag
Fetches(bag) ==
    [c \in {x \in BagToSet(bag) : x.op \in {"getLists", "getList", "getTasks"}} |-> bag[c]]

\* C19: with target-id set the first load asks for that list only and shows
\* it; otherwise it asks for all lists and shows the one whose id is
\* initial-id when there is one, else the first; and once _lists is loaded,
\* the state update that ends a toggle, a removal or a submission starts no
\* fetch of lists or of tasks.
C19_InitialContainerSelection ==
    /\ [](targetId # NoList =>
            /\ lists \in {<<>>, <<targetId>>}
            /\ currentList \in {NoList, targetId}
            /\ \A c \in BagToSet(inflight) :
                   c.op # "getLists" /\ (c.op \in {"getList", "getTasks"} => c.list = targetId))
    /\ [][/\ last'.op = "loadState" =>
                 \E c \in BagToSet(inflight') :
                     IF targetId # NoList THEN c.op = "getList" /\ c.list = targetId
                     ELSE c.op = "getLists"
          /\ last'.op = "listsOk" =>
                 /\ lists' = (IF targetId # NoList THEN <<targetId>> ELSE ListIds)
                 /\ currentList' =
                        (IF targetId # NoList THEN targetId
                         ELSE IF \E k \in DOMAIN ListIds : ListIds[k] = initialId
                              THEN initialId ELSE ListIds[1])
                 /\ \E c \in BagToSet(inflight') : c.op = "getTasks" /\ c.list = currentList'
          /\ (Len(lists) > 0 /\ last'.op \in {"updateOk", "removeOk", "addOk", "addThrow", "addFail"}) =>
                 Fetches(inflight') = Fetches(inflight)]_vars

C19_Witness ==
    /\ component = "todo"
    /\ targetId = NoList
    /\ initialId = "B"
    /\ lists = ListIds
    /\ currentList = "B"
    /\ last.op = "tasksOk"
    /\ issued = 0

\* C20: while read-only is set, whatever the user and the host do (check
\* clicks, the options menu, opening the panel through isNewTaskVisible and
\* submitting), no createTodoTask, updateTodoTask or deleteTodoTask call is in
\* flight, the store keeps its tasks, and _tasks is cleared or a list as the
\* store has it.
C20_ReadOnlyIssuesNoMutation ==
    (component = "todo" /\ readOnly) =>
        /\ \A c \in BagToSet(inflight) : c.op \notin {"create", "update", "delete"}
        /\ server.tasks = ServerTasks
        /\ tasks.null \/ tasks.arr = <<>> \/ \E l \in DOMAIN ServerTasks : tasks.arr = ServerTasks[l]

\* C21: once the getTodoTasks responses of overlapping list switches have all
\* arrived, _tasks holds the tasks of the list that is selected (the one
\* picked last); and the tasks-loading indicator is on while a getTodoTasks
\* call is in flight.
C21_OverlappingContainerSwitches ==
    component = "todo" =>
        /\ (last.op = "tasksOk" /\ CallsOf("getTasks") = {}) =>
               (~tasks.null /\ tasks.arr = server.tasks[currentList])
        /\ CallsOf("getTasks") # {} => isLoadingTasks

\* C22: a toggle, a removal or a submission whose call resolves while
\* loadTaskList has _tasks cleared, or after another list was selected, ends
\* without an error, with its loading or hidden marker removed or the
\* submitting flag off, and puts no task created in the list it left into
\* the list now shown.
C22_MutationDuringContainerSwitch ==
    component = "todo" =>
        /\ last.op \notin {"updateThrow", "removeThrow", "addThrow"}
        /\ last.op \in {"updateOk", "updateThrow"} => ~Includes(loadingTasks, last.id)
        /\ last.op \in {"removeOk", "removeThrow"} => ~Includes(hiddenTasks, last.id)
        /\ last.op \in {"addOk", "addThrow"} => ~newTaskBeingAdded
        /\ (last.op = "addOk" /\ last.arg # currentList) => ~InTasks(last.id)

====
